---------------------------- MODULE Spec2Model ----------------------------
(***************************************************************************)
(* Model of the two utilities of the repository:                           *)
(*   deploy/exporter/exporter.py   - the Docker metadata exporter          *)
(*   deploy/scripts/inject_key.py  - the OIDC key injector                 *)
(* The two programs share nothing; each has its own specification          *)
(* (Spec for the exporter, SpecInject for the injector) over its own       *)
(* variables, the other program's variables staying at their initial       *)
(* values.                                                                 *)
(***************************************************************************)
EXTENDS Integers, Sequences, FiniteSets, TLC

VARIABLES
    \* ---- exporter.py ----
    runtime,      \* what client.containers.list(all=True) would return now
    metrics,      \* CONTAINER_META: label tuple -> value of its child gauge
    pc,           \* position of the main thread of exporter.py
    log,          \* what the latest collect_metrics call printed
    sleepArg,     \* argument of the latest time.sleep call (0: none yet)
    docker,       \* did the latest call reach the runtime: "none", "ok", "failed"
    raised,       \* ids of the containers whose extraction raised in the latest call
    dropped,      \* the label tuples the latest call removed from metrics
    \* ---- inject_key.py ----
    keyPieces,    \* how the key file's content was composed (never changes)
    cfgPieces,    \* how the config file's content was composed (never changes)
    linesep,      \* os.linesep of the platform
    argc,         \* len(sys.argv) of the run (0 before it starts)
    fault,        \* the I/O step of the run that raised ("none": none did)
    keyFile,      \* characters of the key file on disk
    configFile,   \* characters of the config file on disk
    ipc,          \* position of inject_key.py: "main", "exited"
    exitCode,     \* process exit status (-1 while running)
    out           \* lines printed by inject_key.py

exporterVars == <<runtime, metrics, pc, log, sleepArg, docker, raised, dropped>>
injectVars == <<keyPieces, cfgPieces, linesep, argc, fault, fault, keyFile, configFile,
                ipc, exitCode, out>>
vars == <<runtime, metrics, pc, log, sleepArg, docker, raised, dropped, keyPieces,
          cfgPieces, linesep, argc, fault, keyFile, configFile, ipc, exitCode, out>>

Min(a, b) == IF a < b THEN a ELSE b

\* All sequences over S of length at most n.
SeqsUpTo(S, n) == UNION {[1..k -> S] : k \in 0..n}

(***************************************************************************)
(*                          exporter.py                                    *)
(***************************************************************************)

\* Most containers one listing holds.
MaxContainers == 2

\* container.id[:12]
ShortIdLen == 12

\* time.sleep(15)
SleepSeconds == 15

\* Python's s[:n]: the first n characters, the whole string when it is shorter.
Slice(s, n) == SubSeq(s, 1, Min(n, Len(s)))

\* str.lstrip('/'): every leading '/' is removed.
RECURSIVE LStripSlash(_)
LStripSlash(s) ==
    IF s # <<>> /\ Head(s) = "/" THEN LStripSlash(Tail(s)) ELSE s

IdPrefix == [i \in 1..ShortIdLen |-> "a"]
IdA == IdPrefix \o <<"1">>
IdB == IdPrefix \o <<"2">>
IdC == <<"c", "3">>
Ids == {IdA, IdB, IdC}

ServiceLabel == "com.docker.compose.service"

\* The attributes of a container that stay fixed over its life in the model:
\* name, image tags, image id and labels.
Profile(id) ==
    IF id = IdA
    THEN [name |-> <<"/", "w", "e", "b">>, tags |-> <<>>,
          image_id |-> "sha256:1", labels |-> <<>>]
    ELSE IF id = IdB
    THEN [name |-> <<"d", "b">>, tags |-> <<"db:1", "db:latest">>,
          image_id |-> "sha256:2", labels |-> [k \in {ServiceLabel} |-> "svc"]]
    ELSE [name |-> <<"/", "/", "x">>, tags |-> <<"x:1">>,
          image_id |-> "sha256:3", labels |-> [k \in {"other"} |-> "v"]]

Statuses == {"running", "exited"}

\* One container as the docker client returns it.
Container(id, status) ==
    [id |-> id, name |-> Profile(id).name, tags |-> Profile(id).tags,
     image_id |-> Profile(id).image_id, labels |-> Profile(id).labels,
     status |-> status]

Containers == {Container(id, st) : id \in Ids, st \in Statuses}

\* dict.get(key, default)
DictGet(d, key, default) == IF key \in DOMAIN d THEN d[key] ELSE default

\* LabelTuple with the name taken as the runtime gives it (no lstrip).
LabelTupleRawName(c) ==
    [id |-> Slice(c.id, ShortIdLen),
     name |-> c.name,
     image |-> IF c.tags # <<>> THEN c.tags[1] ELSE c.image_id,
     com_docker_compose_service |-> DictGet(c.labels, ServiceLabel, c.name),
     state |-> c.status,
     full_id |-> c.id]

\* lines 23-31: the six label values of one container.
LabelTuple(c) ==
    LET name == LStripSlash(c.name)
    IN  [id |-> Slice(c.id, ShortIdLen),
         name |-> name,
         image |-> IF c.tags # <<>> THEN c.tags[1] ELSE c.image_id,
         com_docker_compose_service |-> DictGet(c.labels, ServiceLabel, name),
         state |-> c.status,
         full_id |-> c.id]

\* A clear that removes nothing.
ClearNothing(m) == m

\* CONTAINER_META.clear()
Clear(m) == <<>>

\* CONTAINER_META.labels(...).set(1)
SetOne(m, t) == [x \in (DOMAIN m) \cup {t} |-> IF x = t THEN 1 ELSE m[x]]

ContainerError(c) == <<"Error processing container", Slice(c.id, ShortIdLen)>>
DockerError == <<"Error connecting to Docker">>

\* The loop with the try/except around it instead of inside it: the first
\* container that fails ends the loop.
RECURSIVE ProcessContainersAbort(_, _, _, _, _)
ProcessContainersAbort(listing, failing, i, m, lg) ==
    IF i > Len(listing) THEN [metrics |-> m, log |-> lg]
    ELSE IF i \in failing
         THEN [metrics |-> m, log |-> Append(lg, ContainerError(listing[i]))]
         ELSE ProcessContainersAbort(listing, failing, i + 1,
                                     SetOne(m, LabelTuple(listing[i])), lg)

\* lines 18-44: the loop over the listing, one try/except per container.
\* failing: the positions of the listing whose try body raises (the lookup
\* behind container.image fails, say).
RECURSIVE ProcessContainers(_, _, _, _, _)
ProcessContainers(listing, failing, i, m, lg) ==
    IF i > Len(listing) THEN [metrics |-> m, log |-> lg]
    ELSE IF i \in failing
         THEN ProcessContainers(listing, failing, i + 1, m,
                                Append(lg, ContainerError(listing[i])))
         ELSE ProcessContainers(listing, failing, i + 1,
                                SetOne(m, LabelTuple(listing[i])), lg)

\* The outer handler reached after the gauge was cleared (clear() moved
\* above the connection).
OnDockerErrorCleared(m) == [metrics |-> <<>>, log |-> <<DockerError>>]

\* lines 46-47: the outer handler leaves the gauge alone and prints.
OnDockerError(m) == [metrics |-> m, log |-> <<DockerError>>]

\* lines 10-47: one call of collect_metrics.
CollectResult(dockerOk, listing, failing, m) ==
    IF dockerOk
    THEN ProcessContainers(listing, failing, 1, Clear(m), <<>>)
    ELSE OnDockerError(m)

\* collect_metrics without the outer handler: a connection error escapes
\* the loop and ends the process.
AfterCollectRaise(dockerOk) == IF dockerOk THEN "sleep" ELSE "crashed"

\* lines 55-57: where the main thread goes when collect_metrics is over.
AfterCollect(dockerOk) == "sleep"

\* lines 51-52
StartHttpServer ==
    /\ pc = "start"
    /\ \E bound \in BOOLEAN : pc' = IF bound THEN "collect" ELSE "crashed"
    /\ UNCHANGED <<runtime, metrics, log, sleepArg, docker, raised, dropped>>

\* line 56
CollectMetrics ==
    /\ pc = "collect"
    /\ \E dockerOk \in BOOLEAN : \E failing \in SUBSET (1..Len(runtime)) :
         LET r == CollectResult(dockerOk, runtime, failing, metrics)
         IN  /\ dockerOk \/ failing = {}
             /\ raised' = {runtime[i].id : i \in failing}
             /\ metrics' = r.metrics
             /\ log' = r.log
             /\ pc' = AfterCollect(dockerOk)
             /\ docker' = IF dockerOk THEN "ok" ELSE "failed"
             /\ dropped' = (DOMAIN metrics) \ (DOMAIN r.metrics)
    /\ UNCHANGED <<runtime, sleepArg>>

\* line 57
Sleep ==
    /\ pc = "sleep"
    /\ sleepArg' = SleepSeconds
    /\ pc' = "collect"
    /\ UNCHANGED <<runtime, metrics, log, docker, raised, dropped>>

\* The environment: a container is created.
RuntimeCreate ==
    /\ Len(runtime) < MaxContainers
    /\ \E c \in Containers :
         /\ \A i \in 1..Len(runtime) : runtime[i].id # c.id
         /\ runtime' = Append(runtime, c)
    /\ UNCHANGED <<metrics, pc, log, sleepArg, docker, raised, dropped>>

\* The environment: a container is removed.
RuntimeRemove ==
    /\ \E i \in 1..Len(runtime) :
         runtime' = SubSeq(runtime, 1, i - 1) \o SubSeq(runtime, i + 1, Len(runtime))
    /\ UNCHANGED <<metrics, pc, log, sleepArg, docker, raised, dropped>>

\* The environment: a container changes state.
RuntimeUpdate ==
    /\ \E i \in 1..Len(runtime) : \E c \in Containers :
         /\ c.id = runtime[i].id
         /\ c # runtime[i]
         /\ runtime' = [runtime EXCEPT ![i] = c]
    /\ UNCHANGED <<metrics, pc, log, sleepArg, docker, raised, dropped>>

(***************************************************************************)
(*                          inject_key.py                                  *)
(***************************************************************************)

\* Most pieces the key file is composed of.
MaxKeyPieces == 2

\* Most pieces the config file is composed of.
MaxCfgPieces == 2

\* indent = ' ' * 16
IndentWidth == 16

Indent == [i \in 1..IndentWidth |-> " "]

\* '__OIDC_KEY_PLACEHOLDER__'
Token == <<"_", "_", "O", "I", "D", "C", "_", "K", "E", "Y", "_",
           "P", "L", "A", "C", "E", "H", "O", "L", "D", "E", "R", "_", "_">>

\* target = indent + '__OIDC_KEY_PLACEHOLDER__'
Target == Indent \o Token

\* The files of the model are composed of pieces.  In a config file: the
\* indented placeholder (IT), the bare token (T), a space, another character,
\* a carriage return, a line feed.  In a key file: a key character, a space,
\* a carriage return, a line feed.
CfgKinds == {"IT", "T", "SP", "X", "CR", "LF"}
KeyKinds == {"K", "SP", "CR", "LF"}

PieceChars(k) ==
    CASE k = "IT" -> Target
      [] k = "T"  -> Token
      [] k = "SP" -> <<" ">>
      [] k = "X"  -> <<"x">>
      [] k = "K"  -> <<"M">>
      [] k = "CR" -> <<"\r">>
      [] k = "LF" -> <<"\n">>

RECURSIVE Flatten(_)
Flatten(pieces) ==
    IF pieces = <<>> THEN <<>>
    ELSE PieceChars(Head(pieces)) \o Flatten(Tail(pieces))

\* The concatenation of parts[lo..hi], a sequence of sequences.
RECURSIVE ConcatAll(_, _, _)
ConcatAll(parts, lo, hi) ==
    IF lo > hi THEN <<>>
    ELSE IF lo = hi THEN parts[lo]
    ELSE LET mid == (lo + hi) \div 2
         IN  ConcatAll(parts, lo, mid) \o ConcatAll(parts, mid + 1, hi)

\* The least element of a non-empty set of integers.
Least(S) == CHOOSE x \in S : \A y \in S : x <= y

\* open(path, 'r') ... read(): text mode with universal newlines, "\r\n" and
\* a lone "\r" both arrive as "\n".
ReadText(b) ==
    ConcatAll([i \in 1..Len(b) |->
                 IF b[i] = "\r" THEN <<"\n">>
                 ELSE IF b[i] = "\n" /\ i > 1 /\ b[i - 1] = "\r" THEN <<>>
                 ELSE <<b[i]>>],
              1, Len(b))

\* f.write(text) on a file opened with 'w': "\n" leaves as os.linesep.
WriteText(text, sep) ==
    ConcatAll([i \in 1..Len(text) |-> IF text[i] = "\n" THEN sep ELSE <<text[i]>>],
              1, Len(text))

\* f.readlines() of the text from position i on: the lines, each with its
\* "\n", the last one possibly without.
RECURSIVE ReadLines(_, _)
ReadLines(text, i) ==
    IF i > Len(text) THEN <<>>
    ELSE LET ends == {j \in i..Len(text) : text[j] = "\n"}
         IN  IF ends = {} THEN <<SubSeq(text, i, Len(text))>>
             ELSE <<SubSeq(text, i, Least(ends))>> \o ReadLines(text, Least(ends) + 1)

\* ''.join(lines): the lines as they are, no indentation.
JoinLinesBare(lines) == ConcatAll(lines, 1, Len(lines))

\* line 11: ''.join([indent + line for line in f.readlines()])
JoinIndented(lines) ==
    ConcatAll([i \in 1..Len(lines) |-> Indent \o lines[i]], 1, Len(lines))

\* str.isspace() on the characters of the model.
IsSpace(c) == c \in {" ", "\n", "\r", "\t"}

\* str.rstrip()
RStrip(s) ==
    LET solid == {i \in 1..Len(s) : ~IsSpace(s[i])}
    IN  IF solid = {} THEN <<>>
        ELSE SubSeq(s, 1, CHOOSE i \in solid : \A j \in solid : j <= i)

MatchAt(s, i, sub) ==
    /\ i + Len(sub) - 1 <= Len(s)
    /\ \A j \in 1..Len(sub) : s[i + j - 1] = sub[j]

\* The positions from i on where sub occurs in s.
Matches(s, i, sub) == {j \in i..(Len(s) - Len(sub) + 1) : MatchAt(s, j, sub)}

\* sub in s
Contains(s, sub) == Matches(s, 1, sub) # {}

\* str.replace(old, new, 1): only the leftmost occurrence.
ReplaceOnce(s, old, new) ==
    LET M == Matches(s, 1, old)
    IN  IF M = {} THEN s
        ELSE SubSeq(s, 1, Least(M) - 1) \o new
             \o SubSeq(s, Least(M) + Len(old), Len(s))

RECURSIVE ReplaceFrom(_, _, _, _)
ReplaceFrom(s, i, old, new) ==
    LET M == Matches(s, i, old)
    IN  IF M = {} THEN SubSeq(s, i, Len(s))
        ELSE SubSeq(s, i, Least(M) - 1) \o new
             \o ReplaceFrom(s, Least(M) + Len(old), old, new)

\* str.replace(old, new): every occurrence, leftmost first, not overlapping
\* (old is never empty here).
Replace(s, old, new) == ReplaceFrom(s, 1, old, new)

\* A key content that was never indented.
KeyContentBare(keyText) == JoinLinesBare(ReadLines(keyText, 1))

\* lines 9-11
KeyContent(keyText) == JoinIndented(ReadLines(keyText, 1))

\* lines 16-22: the new content of the config and the message printed.
NewContent(config_content, key_content) ==
    IF Contains(config_content, Target)
    THEN [text |-> Replace(config_content, Target, RStrip(key_content)),
          msg |-> "Placeholder found and replaced."]
    ELSE [text |-> Replace(config_content, Token, key_content),
          msg |-> "Indented placeholder not found, trying bare replacement."]

Faults == {"none", "key_read", "config_read", "config_open", "config_write"}

\* A handler that prints the error and lets the process end normally.
ExitStatusNoExit(f) == 0

\* lines 26-30: the status the process ends with.
ExitStatus(f) == IF f = "none" THEN 0 ELSE 1

\* lines 5-30: what one call prints.
Printed(f, msg) ==
    <<"Injecting key">>
    \o (IF f \in {"none", "config_open", "config_write"} THEN <<msg>> ELSE <<>>)
    \o (IF f = "none" THEN <<"Successfully injected key.">> ELSE <<"Error">>)

\* lines 32-35
Usage ==
    /\ ipc = "main"
    /\ \E n \in {2, 4} : argc' = n
    /\ out' = <<"Usage: inject_key.py <key_file> <config_file>">>
    /\ exitCode' = 1
    /\ ipc' = "exited"
    /\ UNCHANGED <<keyPieces, cfgPieces, linesep, fault, keyFile, configFile>>

\* lines 4-30 and 37
InjectKey ==
    /\ ipc = "main"
    /\ argc' = 3
    /\ \E f \in Faults :
         LET r == NewContent(ReadText(configFile), KeyContent(ReadText(keyFile)))
             written == WriteText(r.text, linesep)
         IN  /\ fault' = f
             /\ out' = Printed(f, r.msg)
             /\ exitCode' = ExitStatus(f)
             /\ CASE f = "none" -> configFile' = written
                  \* open(config_path, 'w') has truncated the file when a
                  \* write, flush or close raises; what reached the disk
                  \* before is nothing or everything.
                  [] f = "config_write" -> configFile' \in {<<>>, written}
                  [] OTHER -> configFile' = configFile
    /\ ipc' = "exited"
    /\ UNCHANGED <<keyPieces, cfgPieces, linesep, keyFile>>

ExporterIdle ==
    /\ runtime = <<>> /\ metrics = <<>> /\ pc = "start" /\ log = <<>>
    /\ sleepArg = 0 /\ docker = "none" /\ raised = {} /\ dropped = {}

InitInject ==
    /\ keyPieces \in SeqsUpTo(KeyKinds, MaxKeyPieces)
    /\ cfgPieces \in SeqsUpTo(CfgKinds, MaxCfgPieces)
    /\ linesep \in {<<"\n">>, <<"\r", "\n">>}
    /\ keyFile = Flatten(keyPieces)
    /\ configFile = Flatten(cfgPieces)
    /\ argc = 0 /\ fault = "none"
    /\ ipc = "main" /\ exitCode = -1 /\ out = <<>>
    /\ ExporterIdle

NextInject ==
    \/ Usage /\ UNCHANGED exporterVars
    \/ InjectKey /\ UNCHANGED exporterVars

SpecInject == InitInject /\ [][NextInject]_vars

InjectIdle ==
    /\ keyPieces = <<>> /\ cfgPieces = <<>> /\ linesep = <<"\n">>
    /\ keyFile = <<>> /\ configFile = <<>>
    /\ argc = 0 /\ fault = "none"
    /\ ipc = "main" /\ exitCode = -1 /\ out = <<>>

Init == ExporterIdle /\ InjectIdle

Next ==
    \/ StartHttpServer /\ UNCHANGED injectVars
    \/ CollectMetrics /\ UNCHANGED injectVars
    \/ Sleep /\ UNCHANGED injectVars
    \/ RuntimeCreate /\ UNCHANGED injectVars
    \/ RuntimeRemove /\ UNCHANGED injectVars
    \/ RuntimeUpdate /\ UNCHANGED injectVars

Spec == Init /\ [][Next]_vars

(***************************************************************************)
(*                     Properties of exporter.py                           *)
(***************************************************************************)

\* A step of the main thread that is one whole call of collect_metrics.
CycleStep == pc = "collect" /\ pc' # "collect"

IsPrefixOfLen(p, s, n) ==
    /\ Len(p) = Min(n, Len(s))
    /\ \A k \in 1..Len(p) : p[k] = s[k]

\* s with k leading '/' removed, for the k that leaves no leading '/'.
IsSlashStripped(t, s) ==
    /\ (t = <<>> \/ t[1] # "/")
    /\ \E k \in 0..Len(s) :
         /\ \A j \in 1..k : s[j] = "/"
         /\ t = SubSeq(s, k + 1, Len(s))

\* Label tuple t is the one the documentation gives for container c.
Describes(t, c) ==
    /\ t.full_id = c.id
    /\ IsPrefixOfLen(t.id, c.id, 12)
    /\ IsSlashStripped(t.name, c.name)
    /\ t.image = (IF Len(c.tags) > 0 THEN Head(c.tags) ELSE c.image_id)
    /\ t.com_docker_compose_service =
         (IF "com.docker.compose.service" \in DOMAIN c.labels
          THEN c.labels["com.docker.compose.service"] ELSE t.name)
    /\ t.state = c.status

Published(m, c) == \E t \in DOMAIN m : Describes(t, c) /\ m[t] = 1

\* C1: a cycle that reaches the runtime and meets no extraction failure
\* leaves exactly one entry per listed container, keyed by (first 12
\* characters of the id, name without leading '/', image, service, state,
\* full id), each with value 1, and nothing else.
C1_OneEntryPerContainer ==
    [][(CycleStep /\ docker' = "ok" /\ raised' = {})
        => /\ Cardinality(DOMAIN metrics') = Len(runtime)
           /\ \A i \in 1..Len(runtime) : Published(metrics', runtime[i])
           /\ \A t \in DOMAIN metrics' :
                /\ metrics'[t] = 1
                /\ \E i \in 1..Len(runtime) : Describes(t, runtime[i])]_vars

\* Two containers sharing their 12-character short id were both published.
C1_Witness ==
    /\ pc = "sleep" /\ docker = "ok" /\ log = <<>>
    /\ Len(runtime) = 2
    /\ runtime[1].id = IdB /\ runtime[2].id = IdA
    /\ Cardinality(DOMAIN metrics) = 2
    /\ \A i \in 1..2 : Published(metrics, runtime[i])

\* An entry of the prior cycle that describes no container listed now.
Stale(t, listing) == ~\E i \in 1..Len(listing) : Describes(t, listing[i])

\* C2 (as amended): a cycle that reaches the runtime removes every entry
\* whose container disappeared or changed, and publishes the new tuple of
\* a changed container unless its extraction fails in that cycle.
C2_NoStaleEntryAfterReachedCycle ==
    [][(CycleStep /\ docker' = "ok")
        => \A t \in DOMAIN metrics :
             Stale(t, runtime)
               => /\ t \notin DOMAIN metrics'
                  /\ \A i \in 1..Len(runtime) :
                       (runtime[i].id = t.full_id /\ runtime[i].id \notin raised')
                         => Published(metrics', runtime[i])]_vars

\* C2 (as claimed): every cycle, whatever its outcome, removes every entry
\* whose container disappeared or changed, and publishes the new tuple of
\* a changed container.
C2_NoStaleEntryAfterAnyCycle ==
    [][CycleStep
        => \A t \in DOMAIN metrics :
             Stale(t, runtime)
               => /\ t \notin DOMAIN metrics'
                  /\ \A i \in 1..Len(runtime) :
                       runtime[i].id = t.full_id
                         => Published(metrics', runtime[i])]_vars

\* The latest cycle removed the entry of a container that was running and
\* published it as exited, and removed the entry of a container that is gone.
C2_Witness ==
    /\ pc = "sleep" /\ docker = "ok"
    /\ Len(runtime) = 1
    /\ runtime[1].status = "exited"
    /\ Published(metrics, runtime[1])
    /\ \E t \in dropped : t.full_id = runtime[1].id /\ t.state = "running"
    /\ \E t \in dropped : t.full_id # runtime[1].id
    /\ \A t \in dropped : t \notin DOMAIN metrics

\* C3: a cycle that fails to reach the runtime leaves the observation set
\* as it was, reports the error, and returns to the loop.
C3_FailedCycleChangesNothing ==
    [][(CycleStep /\ docker' = "failed")
        => /\ metrics' = metrics
           /\ log' = <<DockerError>>
           /\ pc' = "sleep"]_vars

\* After a failed cycle the set still holds an entry of an earlier cycle
\* whose container is gone.
C3_Witness ==
    /\ pc = "sleep" /\ docker = "failed" /\ log = <<DockerError>>
    /\ runtime = <<>>
    /\ Cardinality(DOMAIN metrics) = 2

\* C4: in a cycle that reaches the runtime, every container whose
\* extraction succeeds is published with value 1 wherever it stands in
\* the listing, and every failing one is skipped and reported.
C4_FailureSkipsOnlyThatContainer ==
    [][(CycleStep /\ docker' = "ok")
        => \A i \in 1..Len(runtime) :
             IF runtime[i].id \notin raised'
             THEN Published(metrics', runtime[i])
             ELSE /\ ~\E t \in DOMAIN metrics' : t.full_id = runtime[i].id
                  /\ \E k \in 1..Len(log') : log'[k] = ContainerError(runtime[i])]_vars

\* The first container of the listing failed and the second was published.
C4_Witness ==
    /\ pc = "sleep" /\ docker = "ok"
    /\ Len(runtime) = 2
    /\ raised = {runtime[1].id}
    /\ log = <<ContainerError(runtime[1])>>
    /\ DOMAIN metrics = {LabelTuple(runtime[2])}

\* C10: once in the loop the main thread only alternates between a
\* collection cycle and the fixed sleep, whatever the cycle's outcome,
\* and always has a next step.
C10_LoopNeverEnds ==
    /\ [][/\ pc = "collect" => pc' \in {"collect", "sleep"}
          /\ pc = "sleep" => pc' \in {"sleep", "collect"}
          /\ (pc = "sleep" /\ pc' = "collect") => sleepArg' = 15]_vars
    /\ [](pc = "collect" => ENABLED CollectMetrics)
    /\ [](pc = "sleep" => ENABLED Sleep)

\* A cycle that failed to reach the runtime and had slept before.
C10_Witness ==
    /\ pc = "sleep" /\ docker = "failed" /\ sleepArg = 15

(***************************************************************************)
(*                    Properties of inject_key.py                          *)
(***************************************************************************)

\* The run was a call of inject_key that met no I/O error.
Injected == ipc = "exited" /\ argc = 3 /\ fault = "none"

CountPieces(pieces, k) == Cardinality({i \in 1..Len(pieces) : pieces[i] = k})

\* How many times sub occurs in s.
Occurrences(s, sub) ==
    Cardinality({i \in 1..(Len(s) - Len(sub) + 1) :
                   \A j \in 1..Len(sub) : s[i + j - 1] = sub[j]})

CountChar(s, c) == Cardinality({i \in 1..Len(s) : s[i] = c})

SixteenSpaces == <<" ", " ", " ", " ", " ", " ", " ", " ",
                   " ", " ", " ", " ", " ", " ", " ", " ">>

\* The text a file composed of these pieces holds, line ends written "\n":
\* a CR, a CR LF pair and an LF are one line end each.
ExpText(pieces) ==
    ConcatAll([i \in 1..Len(pieces) |->
                 CASE pieces[i] = "CR" -> <<"\n">>
                   [] pieces[i] = "LF" ->
                        IF i > 1 /\ pieces[i - 1] = "CR" THEN <<>> ELSE <<"\n">>
                   [] OTHER -> PieceChars(pieces[i])],
              1, Len(pieces))

\* The text with sixteen spaces in front of every line.
ExpIndented(text) ==
    ConcatAll([i \in 1..Len(text) |->
                 (IF i = 1 \/ text[i - 1] = "\n" THEN SixteenSpaces ELSE <<>>)
                 \o <<text[i]>>],
              1, Len(text))

\* The text without its trailing whitespace.
ExpTrimmed(text) ==
    SubSeq(text, 1,
           CHOOSE n \in 0..Len(text) :
             /\ n = 0 \/ text[n] \notin {" ", "\n"}
             /\ \A j \in (n + 1)..Len(text) : text[j] \in {" ", "\n"})

\* The text as the platform stores it: each line end is os.linesep.
ExpStored(text) ==
    ConcatAll([i \in 1..Len(text) |->
                 IF text[i] = "\n" THEN linesep ELSE <<text[i]>>],
              1, Len(text))

\* The config text with every piece of kind k replaced by new.
ExpConfigText(k, new) ==
    ConcatAll([i \in 1..Len(cfgPieces) |->
                 CASE cfgPieces[i] = k -> new
                   [] cfgPieces[i] = "CR" -> <<"\n">>
                   [] cfgPieces[i] = "LF" ->
                        IF i > 1 /\ cfgPieces[i - 1] = "CR" THEN <<>> ELSE <<"\n">>
                   [] OTHER -> PieceChars(cfgPieces[i])],
              1, Len(cfgPieces))

\* The config bytes with every indented placeholder replaced by new and
\* every other byte as it was.
ExpConfigBytes(new) ==
    ConcatAll([i \in 1..Len(cfgPieces) |->
                 IF cfgPieces[i] = "IT" THEN new ELSE PieceChars(cfgPieces[i])],
              1, Len(cfgPieces))

\* C5 (as amended): every occurrence of the placeholder variant the config
\* holds is replaced.  With the indented placeholder present, no indented
\* placeholder is left, each was replaced by one copy of the key, and the
\* tokens that are not indented stay; without it, no token is left and each
\* was replaced by one copy of the key.
C5_EveryOccurrenceReplaced ==
    Injected =>
      IF CountPieces(cfgPieces, "IT") > 0
      THEN /\ Occurrences(configFile, SixteenSpaces \o Token) = 0
           /\ Occurrences(configFile, Token) = CountPieces(cfgPieces, "T")
           /\ CountChar(configFile, "M")
                = CountPieces(cfgPieces, "IT") * CountPieces(keyPieces, "K")
      ELSE /\ Occurrences(configFile, Token) = 0
           /\ CountChar(configFile, "M")
                = CountPieces(cfgPieces, "T") * CountPieces(keyPieces, "K")

\* C5 (as claimed): of k >= 2 occurrences of the placeholder token, one is
\* replaced and k - 1 are still in the written file.
C5_OnlyFirstOccurrenceReplaced ==
    (Injected /\ Occurrences(Flatten(cfgPieces), Token) >= 2)
      => Occurrences(configFile, Token) = Occurrences(Flatten(cfgPieces), Token) - 1

\* A config of two indented placeholders was written with the key twice.
C5_Witness ==
    /\ Injected /\ exitCode = 0
    /\ cfgPieces = <<"IT", "IT">> /\ keyPieces = <<"K">>
    /\ configFile = SixteenSpaces \o <<"M">> \o SixteenSpaces \o <<"M">>

\* C6 (as amended): with no indented placeholder in the config, every bare
\* token is replaced by the key text with sixteen spaces in front of each
\* of its lines, untrimmed; the rest of the config text stays.
C6_BareTokenGetsIndentedKey ==
    (Injected /\ CountPieces(cfgPieces, "IT") = 0 /\ CountPieces(cfgPieces, "T") >= 1)
      => configFile
           = ExpStored(ExpConfigText("T", ExpIndented(ExpText(keyPieces))))

\* C6 (as claimed): the bare token is replaced by the key text as read,
\* no indentation added.
C6_BareTokenGetsBareKey ==
    (Injected /\ CountPieces(cfgPieces, "IT") = 0 /\ CountPieces(cfgPieces, "T") >= 1)
      => configFile = ExpStored(ExpConfigText("T", ExpText(keyPieces)))

\* A bare token after another character was replaced by a two-line key,
\* both lines indented.
C6_Witness ==
    /\ Injected /\ exitCode = 0 /\ linesep = <<"\n">>
    /\ cfgPieces = <<"X", "T">> /\ keyPieces = <<"LF", "K">>
    /\ out[2] = "Indented placeholder not found, trying bare replacement."
    /\ configFile = <<"x">> \o SixteenSpaces \o <<"\n">> \o SixteenSpaces \o <<"M">>

\* C7: with the indented placeholder in the config, the written file is the
\* config with each indented placeholder replaced by the key lines, sixteen
\* spaces in front of each, trailing whitespace trimmed, and every other
\* character of the config as it was.
C7_IndentedReplacedRestUntouched ==
    (Injected /\ CountPieces(cfgPieces, "IT") >= 1)
      => configFile
           = ExpConfigBytes(ExpStored(ExpTrimmed(ExpIndented(ExpText(keyPieces)))))

\* C8: with neither placeholder in the config, the file is written back
\* identical to its input and the run succeeds.
C8_NoPlaceholderFileIdentical ==
    (Injected /\ CountPieces(cfgPieces, "IT") = 0 /\ CountPieces(cfgPieces, "T") = 0)
      => /\ configFile = Flatten(cfgPieces)
         /\ exitCode = 0

\* C9: a run in which reading the key, reading the config or writing the
\* config raised ends with a non-zero status, reports the error and never
\* reports success.
C9_IOErrorExitsNonZero ==
    (ipc = "exited" /\ fault # "none")
      => /\ exitCode # 0
         /\ out[Len(out)] = "Error"
         /\ \A i \in 1..Len(out) : out[i] # "Successfully injected key."

\* The write raised after the config was truncated: status 1.
C9_Witness ==
    /\ ipc = "exited" /\ fault = "config_write" /\ exitCode = 1
    /\ cfgPieces # <<>> /\ configFile = <<>>

=============================================================================
